---- MODULE Spec2Model ----
(***************************************************************************)
(* Secondary indexes over a Redis key-value store of movie records:        *)
(* the index rebuild of aggregate_movies.py (aggregate_data) and the       *)
(* index reads of queris.py / redis_queries.py.                            *)
(*                                                                         *)
(* Redis keys are modelled as follows.  A primary record key "movie:<n>"   *)
(* is the string itself.  An index key "<ns>:<value>" is the pair          *)
(* <<ns, value>>; the seven global ordered sets "zset:<field>" are         *)
(* <<"zset:<field>", "">>.  Floats are modelled by integers (only their    *)
(* order and sign matter to the code), except the raw release year, whose  *)
(* float form is kept in tenths so that truncation is a computation.       *)
(***************************************************************************)
EXTENDS Integers, Sequences, FiniteSets, TLC

\* ------------------------------------------------------------------ bounds
\* Number of primary records in the Record Store (keys movie:1 .. movie:MaxKey).
MaxKey == 2
\* The configured cap NUM_ROWS ranges over 1 .. MaxLimit.
MaxLimit == 2

KeyNums == 1 .. MaxKey

\* ------------------------------------------------------- raw JSON values
\* A raw numeric field: absent (None), "", "nan", a JSON number, a numeric
\* string, or a non-numeric string.
RawNum(t, v) == [t |-> t, v |-> v]
NumAbsent == RawNum("absent", 0)
NumEmpty == RawNum("empty", 0)
NumBad == RawNum("badstr", 0)

\* A raw release_year: absent, int, float (v in tenths), NaN, a digit-only
\* string, a digit string with surrounding blanks, any other string, a bool.
RawYear(t, v) == [t |-> t, v |-> v]

\* A raw text field: absent, a string s (pad: surrounded by blanks), or a
\* value that is not a string.
RawText(t, s, pad) == [t |-> t, s |-> s, pad |-> pad]
TextAbsent == RawText("absent", "", FALSE)
Text(s) == RawText("str", s, FALSE)

\* One element of a list field: the text s, possibly surrounded by blanks.
Item(s, pad) == [s |-> s, pad |-> pad]
\* A raw list field: absent, a native JSON array, a string holding a
\* serialized list "['a', 'b']", a comma-separated plain string "a, b", or a
\* string that starts with "[" and does not parse.
RawList(t, items) == [t |-> t, items |-> items]
ListAbsent == RawList("absent", <<>>)

\* ------------------------------------------------------ field extraction
\* float(x) if x not in (None, "", "nan") else 0.0 : raises ValueError on a
\* string that is not a number.
CoerceRaises(raw) == raw.t = "badstr"

CoerceValue(raw) == IF raw.t \in {"num", "numstr"} THEN raw.v ELSE 0

\* Lines 83-91.  The result is [has, y]: y is the decimal string of the year.
ParseYear(raw) ==
  CASE raw.t \in {"int", "bool"} -> [has |-> TRUE, y |-> ToString(raw.v)]
    [] raw.t = "float" -> [has |-> TRUE, y |-> ToString(raw.v \div 10)]
    [] raw.t \in {"digits", "padded"} -> [has |-> TRUE, y |-> ToString(raw.v)]
    [] OTHER -> [has |-> FALSE, y |-> ""]

\* movie.get(field, "").strip() : raises AttributeError on a non-string.
StripRaises(raw) == raw.t = "nonstr"

StripValue(raw) == IF raw.t = "str" THEN raw.s ELSE ""

\* [str(g).strip() for g in xs]
StripAll(items) == [i \in 1 .. Len(items) |-> items[i].s]

\* Lines 103-108.
ParseGenres(raw) ==
  CASE raw.t \in {"native", "serialized"} -> StripAll(raw.items)
    [] OTHER -> <<>>

\* Lines 111-123.
ParseCountries(raw) ==
  CASE raw.t = "serialized" ->
         StripAll(SelectSeq(raw.items, LAMBDA c : c.s # "" \/ c.pad))
    [] raw.t = "plain" -> StripAll(raw.items)
    [] OTHER -> <<>>

NumFields == <<"vote_average", "IMDB_Rating", "budget", "revenue", "runtime",
               "popularity", "vote_count">>

TextFields == <<"original_language", "director", "Star1">>

\* str(movie.get("id")) : "7" for the integer 7, "7.0" for the float 7.0.
IdStr(id) ==
  CASE id.t = "int" -> ToString(id.n)
    [] id.t = "float" -> ToString(id.n) \o ".0"
    [] OTHER -> "None"

MovieKey(movie) == "movie:" \o IdStr(movie.id)

\* Whether lines 52-123 raise for the parsed record.
ExtractRaises(movie) ==
  \/ \E i \in 1 .. Len(NumFields) : CoerceRaises(movie[NumFields[i]])
  \/ \E i \in 1 .. Len(TextFields) : StripRaises(movie[TextFields[i]])

Range(s) == {s[i] : i \in 1 .. Len(s)}

\* ------------------------------------------------------------ index writes
\* The global ordered set each numeric field feeds (lines 162-181).
ZsetOf == [f \in Range(NumFields) |->
            CASE f = "IMDB_Rating" -> <<"zset:imdb_rating", "">>
              [] f = "vote_average" -> <<"zset:vote_average", "">>
              [] f = "budget" -> <<"zset:budget", "">>
              [] f = "revenue" -> <<"zset:revenue", "">>
              [] f = "runtime" -> <<"zset:runtime", "">>
              [] f = "popularity" -> <<"zset:popularity", "">>
              [] OTHER -> <<"zset:vote_count", "">>]

\* The sadd calls of lines 129-156 for one record: pairs <<index key, member>>.
SAdds(movie) ==
  LET mk == MovieKey(movie)
      one(ns, v) == IF v # "" THEN {<<<<ns, v>>, mk>>} ELSE {}
      year == ParseYear(movie.release_year)
      many(ns, xs) == {<<<<ns, x>>, mk>> : x \in Range(xs) \ {""}}
  IN one("actor", StripValue(movie.Star1))
       \cup one("director", StripValue(movie.director))
       \cup many("genre", ParseGenres(movie.genres_list))
       \cup (IF year.has THEN one("year", year.y) ELSE {})
       \cup one("language", StripValue(movie.original_language))
       \cup many("country", ParseCountries(movie.production_countries))

\* The zadd calls of lines 142-143 and 162-181: <<index key, member, score>>.
ZAdds(movie) ==
  LET mk == MovieKey(movie)
      va == CoerceValue(movie.vote_average)
  IN {<<<<"top_rated", g>>, mk, va>> :
        g \in {x \in Range(ParseGenres(movie.genres_list)) : x # "" /\ va > 0}}
       \cup {<<ZsetOf[f], mk, CoerceValue(movie[f])>> :
               f \in {x \in Range(NumFields) : CoerceValue(movie[x]) > 0}}

\* zincrby in place of zadd: a score is added to the one the member has.
ZIncrAll(zs, adds) ==
  {t \in zs : ~ \E a \in adds : a[1] = t[1] /\ a[2] = t[2]}
    \cup {<<a[1], a[2],
             a[3] + (IF \E t \in zs : t[1] = a[1] /\ t[2] = a[2]
                       THEN (CHOOSE t \in zs : t[1] = a[1] /\ t[2] = a[2])[3]
                       ELSE 0)>> : a \in adds}

\* zadd replaces the score of a member that is already in the ordered set.
ZAddAll(zs, adds) ==
  {t \in zs : ~ \E a \in adds : a[1] = t[1] /\ a[2] = t[2]} \cup adds

\* The prefixes of lines 25-29 with that of the primary records added.
PrefixesWithMovie ==
  <<"genre", "actor", "year", "top_rated", "director", "country", "language",
    "zset:imdb_rating", "zset:vote_average", "zset:budget", "zset:revenue",
    "zset:runtime", "zset:popularity", "zset:vote_count", "movie">>

\* The prefixes of lines 25-29, in order.
Prefixes == <<"genre", "actor", "year", "top_rated", "director", "country",
              "language", "zset:imdb_rating", "zset:vote_average",
              "zset:budget", "zset:revenue", "zset:runtime",
              "zset:popularity", "zset:vote_count">>

\* for key in scan_iter(prefix*): delete(key)   (lines 30-32)
DeletePrefix(s, ns) == {t \in s : t[1][1] # ns}

\* ------------------------------------------------------- the Record Store
\* A record with every optional field absent.
Blank == [id |-> [t |-> "int", n |-> 0],
          vote_average |-> NumAbsent, IMDB_Rating |-> NumAbsent,
          budget |-> NumAbsent, revenue |-> NumAbsent, runtime |-> NumAbsent,
          popularity |-> NumAbsent, vote_count |-> NumAbsent,
          release_year |-> RawYear("absent", 0),
          original_language |-> TextAbsent, director |-> TextAbsent,
          Star1 |-> TextAbsent,
          genres_list |-> ListAbsent, production_countries |-> ListAbsent]

\* A well-formed record as loading_dataset.py writes it from the CSV.
Clean == [Blank EXCEPT
          !.vote_average = RawNum("num", 8), !.budget = RawNum("num", 5),
          !.revenue = RawNum("num", 20), !.release_year = RawYear("int", 1999),
          !.original_language = Text("en"), !.director = Text("Nolan"),
          !.Star1 = Text("Hanks"),
          !.genres_list = RawList("serialized", <<Item("Drama", FALSE)>>),
          !.production_countries =
              RawList("plain", <<Item("US", FALSE), Item("FR", TRUE)>>)]

\* Two genres, a float year, a numeric string, padded text.
Second == [Blank EXCEPT
           !.vote_average = RawNum("num", 6), !.IMDB_Rating = RawNum("num", 7),
           !.budget = RawNum("numstr", 3), !.revenue = RawNum("num", 4),
           !.release_year = RawYear("float", 20017),
           !.original_language = Text("en"),
           !.Star1 = RawText("str", "Hanks", TRUE),
           !.genres_list =
               RawList("native", <<Item("Drama", FALSE), Item("Action", TRUE)>>),
           !.production_countries = RawList("serialized", <<Item("US", FALSE)>>)]

\* No rating, an empty budget, a year that is no number ("abc").
Unrated == [Blank EXCEPT
            !.vote_average = RawNum("num", 0), !.budget = NumEmpty,
            !.revenue = RawNum("num", 9),
            !.release_year = RawYear("badstr", 0),
            !.Star1 = Text("Hanks"),
            !.genres_list = RawList("native", <<Item("Drama", FALSE)>>),
            !.production_countries = RawList("broken", <<>>)]

\* A numeric field holding a string that is no number, and such a year.
BadNumber == [Clean EXCEPT !.budget = NumBad,
                           !.release_year = RawYear("badstr", 0)]

\* The list fields in the shapes the other records do not use.
OtherShapes == [Clean EXCEPT
                !.vote_average = RawNum("num", 7),
                !.release_year = RawYear("digits", 2001),
                !.genres_list =
                    RawList("plain", <<Item("Drama", FALSE), Item("Action", TRUE)>>),
                !.production_countries =
                    RawList("native", <<Item("US", FALSE), Item("FR", TRUE)>>)]

\* The id column read as float64 (a NaN id among the rows read).
FloatId == [Clean EXCEPT !.id = [t |-> "float", n |-> 0],
                         !.vote_average = RawNum("num", 9),
                         !.release_year = RawYear("padded", 1999)]

Json(movie) == [t |-> "json", movie |-> movie]
Corrupt == [t |-> "corrupt", movie |-> Blank]
Empty == [t |-> "empty", movie |-> Blank]

Payloads == {Json(Clean), Json(Second), Json(Unrated), Json(BadNumber),
             Json(OtherShapes), Json(FloatId), Corrupt, Empty}

\* key = f"movie:{int(row['id'])}"   (loading_dataset.py line 42)
StoreKey(n) == "movie:" \o ToString(n)

StoreKeys == {StoreKey(n) : n \in KeyNums}

\* The stores the loader can leave: record n under movie:n, its id field n.
Stores(payloads) ==
  {[k \in StoreKeys |->
      LET n == CHOOSE m \in KeyNums : StoreKey(m) = k
      IN [c[n] EXCEPT !.movie.id.n = n]] : c \in [KeyNums -> payloads]}

\* What an earlier rebuild left when the store held one record, movie:9, that
\* the loader has removed since.
Gone == [Second EXCEPT !.id.n = 9]

\* The prefix of the keys the loader writes (loading_dataset.py line 42).
RecordPrefix == "movie"

\* for key in scan_iter(prefix*): delete(key), on the primary records: every
\* key of st begins with RecordPrefix and with none of the other prefixes.
DeleteRecords(st, ns) ==
  [k \in {x \in DOMAIN st : RecordPrefix # ns} |-> st[k]]

\* ------------------------------------------------------------------- state
VARIABLES
  store,      \* Record Store: movie:<n> -> payload (no writer runs meanwhile)
  LIMIT,      \* NUM_ROWS, the cap on processed records
  sets,       \* Redis sets: pairs <<index key, member>>
  zsets,      \* Redis ordered sets: triples <<index key, member, score>>
  pc,         \* where aggregate_data is: idle, cleanup, scan, page, done, failed
  ci,         \* index into Prefixes of the next namespace to clean
  cursor,     \* SCAN cursor: 0 when the iteration is complete
  page,       \* keys of the current SCAN page the loop has not reached
  returned,   \* keys SCAN has returned so far in this rebuild
  processed,  \* the counter of line 37
  logged,     \* keys whose processing error was printed (line 188)
  report,     \* the counts printed at lines 193-201
  before,     \* history: the index contents when this rebuild started
  inRow,      \* history: this rebuild started right after a completed one
              \* ("full": one that got through the whole scan, "cut": one
              \* that stopped at the cap), or after none ("no")
  visited,    \* history: keys the loop of line 43 has reached (past line 45)
  obs,        \* history: the last index read a query made during this rebuild
  qres,       \* what the query run since the last rebuild returned
  q           \* the query each client is running, and what came of it

vars == <<store, LIMIT, sets, zsets, pc, ci, cursor, page, returned, processed,
          logged, report, before, inRow, visited, obs, qres, q>>

\* The callers of the query functions.
Clients == {"a", "b"}

\* A client that has no query running.
NoQuery == [st |-> "idle"]

IndexKeys(ns) == {t[1] : t \in {x \in sets : x[1][1] = ns}}

\* smembers(key)
SMembers(s, key) == {t[2] : t \in {x \in s : x[1] = key}}

NoRead == [has |-> FALSE, key |-> <<"", "">>, val |-> {}]

NoResult == [op |-> "", field |-> "", lo |-> 0, res |-> <<>>]

NoReport == [processed |-> 0, actor |-> 0, director |-> 0, genre |-> 0,
             year |-> 0, language |-> 0, country |-> 0, sorted_sets |-> 0]

InitWith(payloads) ==
  /\ store \in Stores(payloads)
  /\ LIMIT \in 1 .. MaxLimit
  /\ \E old \in {{}, {Gone}} :
       /\ sets = UNION {SAdds(m) : m \in old}
       /\ zsets = UNION {ZAdds(m) : m \in old}
  /\ pc = "idle"
  /\ ci = 1
  /\ cursor = 0
  /\ page = {}
  /\ returned = {}
  /\ processed = 0
  /\ logged = {}
  /\ report = NoReport
  /\ before = [sets |-> {}, zsets |-> {}]
  /\ inRow = "no"
  /\ visited = {}
  /\ obs = NoRead
  /\ qres = NoResult
  /\ q = [c \in Clients |-> NoQuery]

Init == InitWith(Payloads)

\* The cap compared with > instead of >=.
AtCapPassed(n, limit) == n > limit

\* if processed >= LIMIT   (lines 44 and 190)
AtCap(n, limit) == n >= limit

\* aggregate_data is called (the script is run).  A run that failed is not
\* followed further: the next run's cleanup removes whatever it left.
StartRebuild ==
  /\ pc \in {"idle", "done"}
  /\ pc' = "cleanup"
  /\ ci' = 1
  /\ before' = [sets |-> sets, zsets |-> zsets]
  /\ inRow' = IF pc # "done" THEN "no"
              ELSE IF cursor = 0 /\ page = {} THEN "full" ELSE "cut"
  /\ visited' = {}
  /\ obs' = NoRead
  /\ qres' = NoResult
  /\ logged' = {}
  /\ report' = NoReport
  /\ UNCHANGED <<store, LIMIT, sets, zsets, cursor, page, returned, processed, q>>

\* One pass of the loop of lines 30-32; after the last one, lines 36-39.
CleanupPrefix ==
  /\ pc = "cleanup"
  /\ sets' = DeletePrefix(sets, Prefixes[ci])
  /\ zsets' = DeletePrefix(zsets, Prefixes[ci])
  /\ store' = DeleteRecords(store, Prefixes[ci])
  /\ IF ci < Len(Prefixes)
       THEN /\ ci' = ci + 1
            /\ UNCHANGED <<pc, processed, cursor, returned, page>>
       ELSE /\ pc' = "scan"
            /\ ci' = 1
            /\ processed' = 0
            /\ cursor' = 0
            /\ returned' = {}
            /\ page' = {}
  /\ UNCHANGED <<LIMIT, logged, report, before, inRow, visited, obs, qres, q>>

\* redis_db.scan(cursor, match="movie:*", count=1000) returns the next page,
\* in any order: at least one key not returned yet and possibly keys returned
\* before (SCAN may return a key more than once); cursor 0 once every key of
\* the store has been returned.
ScanPage ==
  /\ pc = "scan"
  /\ \E keys \in SUBSET StoreKeys :
       /\ keys \ returned # {}
       /\ page' = keys
       /\ returned' = returned \cup keys
       /\ cursor' = IF returned \cup keys = StoreKeys THEN 0 ELSE 1
  /\ pc' = "page"
  /\ UNCHANGED <<store, LIMIT, sets, zsets, ci, processed, logged, report,
                 before, inRow, visited, obs, qres, q>>

\* redis_db.scan raises (store unreachable): the exception leaves aggregate_data.
ScanFails ==
  /\ pc = "scan"
  /\ pc' = "failed"
  /\ UNCHANGED <<store, LIMIT, sets, zsets, ci, cursor, page, returned,
                 processed, logged, report, before, inRow, visited, obs, qres, q>>

\* redis_db.get(key) raises at line 46, outside the try of line 50.
GetFails ==
  /\ pc = "page"
  /\ page # {}
  /\ ~ AtCap(processed, LIMIT)
  /\ pc' = "failed"
  /\ UNCHANGED <<store, LIMIT, sets, zsets, ci, cursor, page, returned,
                 processed, logged, report, before, inRow, visited, obs, qres, q>>

\* One iteration of the loop of line 43 for key k (lines 44-188).
ProcessKey(k) ==
  /\ pc = "page"
  /\ k \in page
  /\ ~ AtCap(processed, LIMIT)
  /\ page' = page \ {k}
  /\ visited' = visited \cup {k}
  /\ LET data == store[k] IN
       CASE data.t = "empty" ->
              UNCHANGED <<sets, zsets, processed, logged>>
         [] data.t = "corrupt" \/ ExtractRaises(data.movie) ->
              /\ logged' = logged \cup {k}
              /\ UNCHANGED <<sets, zsets, processed>>
         [] OTHER ->
              /\ sets' = sets \cup SAdds(data.movie)
              /\ zsets' = ZAddAll(zsets, ZAdds(data.movie))
              /\ processed' = processed + 1
              /\ UNCHANGED logged
  /\ UNCHANGED <<store, LIMIT, pc, ci, cursor, returned, report, before,
                 inRow, obs, qres, q>>

\* The for loop ends (or breaks at line 45), then lines 190-201.
EndPage ==
  /\ pc = "page"
  /\ page = {} \/ AtCap(processed, LIMIT)
  /\ IF cursor = 0 \/ AtCap(processed, LIMIT)
       THEN /\ pc' = "done"
            /\ report' = [processed |-> processed,
                          actor |-> Cardinality(IndexKeys("actor")),
                          director |-> Cardinality(IndexKeys("director")),
                          genre |-> Cardinality(IndexKeys("genre")),
                          year |-> Cardinality(IndexKeys("year")),
                          language |-> Cardinality(IndexKeys("language")),
                          country |-> Cardinality(IndexKeys("country")),
                          sorted_sets |-> 7]
       ELSE /\ pc' = "scan"
            /\ UNCHANGED report
  /\ UNCHANGED <<store, LIMIT, sets, zsets, ci, cursor, page, returned,
                 processed, logged, before, inRow, visited, obs, qres, q>>

Genres == {"Drama", "Action"}

\* query_by_genre(g) runs while the rebuild does: smembers("genre:g").
QueryByGenre(g) ==
  /\ pc \in {"cleanup", "scan", "page"}
  /\ obs' = [has |-> TRUE, key |-> <<"genre", g>>,
             val |-> SMembers(sets, <<"genre", g>>)]
  /\ UNCHANGED <<store, LIMIT, sets, zsets, pc, ci, cursor, page, returned,
                 processed, logged, report, before, inRow, visited, qres, q>>

\* Redis orders members of equal score by their bytes: "movie:1" < "movie:1.0"
\* < "movie:2" < ... (record numbers of one digit).
LexRank(m) ==
  CHOOSE r \in 1 .. 18 :
    m = "movie:" \o ToString((r + 1) \div 2) \o (IF r % 2 = 1 THEN "" ELSE ".0")

RECURSIVE RevOrder(_)
\* The members of a set of <<member, score>> pairs, highest score first.
RevOrder(S) ==
  IF S = {} THEN <<>>
  ELSE LET top == CHOOSE x \in S : \A y \in S :
                    \/ x[2] > y[2]
                    \/ x[2] = y[2] /\ LexRank(x[1]) >= LexRank(y[1])
       IN <<top[1]>> \o RevOrder(S \ {top})

PlusInf == [inf |-> TRUE, v |-> 0]

Upto(v) == [inf |-> FALSE, v |-> v]

\* zrevrangebyscore(key, max, min): both bounds inclusive.
ZRevRangeByScore(zs, key, max, min) ==
  RevOrder({<<t[2], t[3]>> :
              t \in {x \in zs : /\ x[1] = key
                                /\ x[3] >= min
                                /\ max.inf \/ x[3] <= max.v}})

\* The thresholds the range queries are called with.
Mins == {0, 4, 8}

\* The index read of the range queries of redis_queries.py (lines 130, 162,
\* 194, 261, 333): zrevrangebyscore("zset:<field>", "+inf", min).
ZRevRangeQuery(f, min) ==
  /\ pc \in {"idle", "done"}
  /\ qres = NoResult
  /\ qres' = [op |-> "zrevrangebyscore", field |-> f, lo |-> min,
              res |-> ZRevRangeByScore(zsets, ZsetOf[f], PlusInf, min)]
  /\ UNCHANGED <<store, LIMIT, sets, zsets, pc, ci, cursor, page, returned,
                 processed, logged, report, before, inRow, visited, obs, q>>

\* The steps of aggregate_data.
Rebuild ==
  \/ StartRebuild
  \/ CleanupPrefix
  \/ ScanPage
  \/ ScanFails
  \/ GetFails
  \/ \E k \in StoreKeys : ProcessKey(k)
  \/ EndPage

Next ==
  \/ Rebuild
  \/ \E g \in Genres : QueryByGenre(g)
  \/ \E f \in {"budget", "popularity", "runtime", "vote_average"}, min \in Mins :
       ZRevRangeQuery(f, min)

Spec == Init /\ [][Next]_vars

\* aggregate_data run again and again with no query in between.
Rerun == Init /\ [][Rebuild]_vars

\* ------------------------------------------------------------- the queries
\* A payload whose bytes are not valid UTF-8: json.loads raises
\* UnicodeDecodeError, which is a ValueError but no json.JSONDecodeError.
Undecodable == [t |-> "undecodable", movie |-> Blank]

\* Second's two genres in the other order.
Swapped == [Second EXCEPT
            !.vote_average = RawNum("num", 7),
            !.budget = RawNum("num", 1), !.revenue = RawNum("num", 9),
            !.genres_list =
                RawList("native", <<Item("Action", FALSE), Item("Drama", FALSE)>>)]

\* The payloads the queries are followed over.
QPayloads == {Json(Clean), Json(Second), Json(Swapped), Json(Unrated),
              Json(FloatId), Corrupt, Undecodable}

\* The queries are followed over a store of one more record than the rebuild.
QKeyNums == 1 .. MaxKey + 1

QStores(payloads) ==
  {[k \in {StoreKey(n) : n \in QKeyNums} |->
      LET n == CHOOSE m \in QKeyNums : StoreKey(m) = k
      IN [c[n] EXCEPT !.movie.id.n = n]] : c \in [QKeyNums -> payloads]}

\* The keys of st whose record goes through lines 129-183 of the rebuild.
Indexable(st) ==
  {k \in DOMAIN st : st[k].t = "json" /\ ~ ExtractRaises(st[k].movie)}

\* The indexes a rebuild that got through the whole scan of st leaves.
SnapshotSets(st) == UNION {SAdds(st[k].movie) : k \in Indexable(st)}

SnapshotZsets(st) == UNION {ZAdds(st[k].movie) : k \in Indexable(st)}

\* A published snapshot of one of the stores and no rebuild running.
QInitOn(stores) ==
  /\ store \in stores
  /\ LIMIT = MaxKey + 1
  /\ sets = SnapshotSets(store)
  /\ zsets = SnapshotZsets(store)
  /\ pc = "done"
  /\ ci = 1
  /\ cursor = 0
  /\ page = {}
  /\ returned = DOMAIN store
  /\ processed = Cardinality(Indexable(store))
  /\ logged = {}
  /\ report = NoReport
  /\ before = [sets |-> sets, zsets |-> zsets]
  /\ inRow = "no"
  /\ visited = DOMAIN store
  /\ obs = NoRead
  /\ qres = NoResult
  /\ q = [c \in Clients |-> NoQuery]

QInitWith(payloads) == QInitOn(QStores(payloads))

\* The sequences that list the elements of S once each, in any order: the
\* order in which a Python set or a scan_iter hands out its elements.
Orders(S) ==
  {f \in [1 .. Cardinality(S) -> S] : \A i, j \in DOMAIN f : i # j => f[i] # f[j]}

\* sunion(k1, k2, ...): the members of any of the buckets.
SUnion(s, ks) == UNION {SMembers(s, ks[i]) : i \in DOMAIN ks}

RECURSIVE SInter(_, _)
\* sinter(k1, k2, ...) and set.intersection: the members of every bucket.
SInter(s, ks) ==
  IF Len(ks) = 1 THEN SMembers(s, ks[1])
  ELSE SMembers(s, ks[1]) \cap SInter(s, Tail(ks))

\* The score of member m in the ordered set key.
ZScore(zs, key, m) == (CHOOSE t \in zs : t[1] = key /\ t[2] = m)[3]

\* zrevrange(key, start, stop): ranks from 0, highest score first; a negative
\* rank counts from the end (-1 is the last member); stop is inclusive.
ZRevRange(zs, key, start, stop) ==
  LET all == RevOrder({<<t[2], t[3]>> : t \in {x \in zs : x[1] = key}})
      n == Len(all)
      lo == IF start < 0 THEN (IF n + start < 0 THEN 0 ELSE n + start) ELSE start
      hi == IF stop < 0 THEN n + stop ELSE (IF stop >= n THEN n - 1 ELSE stop)
  IN IF lo > hi \/ lo >= n THEN <<>> ELSE SubSeq(all, lo + 1, hi + 1)

\* redis_db.get(key), then "if data": the payload, or none for an absent key.
Present(st, key) == key \in DOMAIN st /\ st[key].t # "empty"

\* json.loads(data) raising something the except clause does not catch.
LoadRaises(st, key) == Present(st, key) /\ st[key].t = "undecodable"

\* json.loads(data) returning a record.
Parses(st, key) == Present(st, key) /\ st[key].t = "json"

\* load_movies_batch(keys): no store call for no keys (lines 32-33), else one
\* pipeline.execute() (line 49); a record per payload that parses.
LoadMoviesBatch(st, keys) ==
  [trips |-> IF keys = <<>> THEN 0 ELSE 1,
   raises |-> \E i \in DOMAIN keys : LoadRaises(st, keys[i]),
   movies |-> LET ok == SelectSeq(keys, LAMBDA k : Parses(st, k))
              IN [i \in 1 .. Len(ok) |-> st[ok[i]].movie]]

\* safe_float (redis_queries.py lines 62-67): the fallback on any error.
SafeFloat(raw) == IF raw.t \in {"num", "numstr"} THEN raw.v ELSE 0

\* safe_int (lines 69-74) of a raw release year.
SafeInt(raw) ==
  CASE raw.t \in {"int", "bool", "digits", "padded"} -> raw.v
    [] raw.t = "float" -> raw.v \div 10
    [] OTHER -> 0

RECURSIVE SortDesc(_)
\* list.sort(key=..., reverse=True) on a sequence of [k, v]: highest k first,
\* entries of equal k in the order they had (the sort is stable).
SortDesc(s) ==
  IF s = <<>> THEN <<>>
  ELSE LET i == CHOOSE i \in DOMAIN s :
                  /\ \A j \in DOMAIN s : s[j].k <= s[i].k
                  /\ \A j \in 1 .. i - 1 : s[j].k < s[i].k
       IN <<s[i]>> \o SortDesc(SubSeq(s, 1, i - 1) \o SubSeq(s, i + 1, Len(s)))

\* load_title (queris.py lines 6-17) for a key whose payload decodes.
LoadTitle(st, key) ==
  CASE ~ Present(st, key) -> "Not Found"
    [] st[key].t = "corrupt" -> "Invalid JSON"
    [] OTHER -> "title of " \o IdStr(st[key].movie.id)

\* The ranking cut to top_n first and filtered by the year's bucket after.
TopThenFilter(s, zs, genre, year, top_n) ==
  SelectSeq(ZRevRange(zs, <<"top_rated", genre>>, 0, top_n - 1),
            LAMBDA m : m \in SMembers(s, <<"year", year>>))

\* Lines 81-93 of top_rated_by_genre_and_year: the whole ranking of the genre,
\* kept where the member is in the year's bucket, sorted, cut to top_n.
TopCommon(s, zs, genre, year, top_n) ==
  LET key == <<"top_rated", genre>>
      ranked == ZRevRange(zs, key, 0, -1)
      common == SelectSeq(ranked, LAMBDA m : m \in SMembers(s, <<"year", year>>))
      scored == [i \in 1 .. Len(common) |->
                   [k |-> ZScore(zs, key, common[i]), v |-> common[i]]]
      sorted == SortDesc(scored)
      cut == IF top_n < Len(sorted) THEN top_n ELSE Len(sorted)
  IN [i \in 1 .. cut |-> sorted[i].v]

\* A call of a query function: its name and its arguments.
Req(op, x, y, z, n) == [op |-> op, x |-> x, y |-> y, z |-> z, n |-> n]

Years == {"1999", "2001"}

\* The values of top_n the ranking queries are called with.
TopNs == {0, 1, 2}

\* The functions of queris.py that end in load_title calls.
TitleOps == {"query_by_genre", "query_by_actor", "query_by_year",
             "query_by_actor_and_genre", "query_by_genre_and_year",
             "top_rated_by_genre", "top_rated_by_genre_and_year"}

\* The functions that fetch no record.
CountOps == {"count_movies_by_actor", "count_high_rated_action_movies"}

\* The values of min_budget and of min_revenue_multiplier the profit query is
\* called with.
MinBudgets == {0, 4}

Multipliers == {1, 3}

\* A call simple_query_profitable_movies(min_budget, min_revenue_multiplier).
ReqProfitable(min_budget, m) ==
  [op |-> "simple_query_profitable_movies", x |-> "", y |-> "", z |-> "",
   n |-> min_budget, m |-> m]

IndexRequests ==
  {Req("query_by_genre", g, "", "", 0) : g \in Genres}
    \cup {Req("query_by_actor", "Hanks", "", "", 0)}
    \cup {Req("query_by_year", y, "", "", 0) : y \in Years}
    \cup {Req("query_by_actor_and_genre", "Hanks", g, "", 0) : g \in Genres}
    \cup {Req("query_by_genre_and_year", g, y, "", 0) : g \in Genres, y \in Years}
    \cup {Req("complex_query_genre_country_language", g, "US", "en", 0) :
            g \in Genres}
    \cup {Req("top_rated_by_genre", g, "", "", n) : g \in Genres, n \in TopNs}
    \cup {Req("top_rated_by_genre_and_year", "Drama", y, "", n) :
            y \in Years, n \in TopNs}
    \cup {Req("count_movies_by_actor", "Hanks", "", "", 0)}
    \cup {Req("count_high_rated_action_movies", "", "", "", n) : n \in {7, 8}}
    \cup {ReqProfitable(b, m) : b \in MinBudgets, m \in Multipliers}

\* The buckets an intersection query names, in the order it names them.
Buckets(r) ==
  CASE r.op = "query_by_actor_and_genre" -> <<<<"actor", r.x>>, <<"genre", r.y>>>>
    [] r.op = "query_by_genre_and_year" -> <<<<"genre", r.x>>, <<"year", r.y>>>>
    [] r.op = "complex_query_genre_country_language" ->
         <<<<"genre", r.x>>, <<"country", r.y>>, <<"language", r.z>>>>
    [] r.op = "query_by_genre" -> <<<<"genre", r.x>>>>
    [] r.op = "query_by_actor" -> <<<<"actor", r.x>>>>
    [] r.op = "count_movies_by_actor" -> <<<<"actor", r.x>>>>
    [] OTHER -> <<<<"year", r.x>>>>

\* What the index reads of a call hand to the rest of the function: the keys,
\* in each order a set may be iterated in, and the number a count query reads.
IndexRead(r) ==
  CASE r.op = "top_rated_by_genre" ->
         {[keys |-> ZRevRange(zsets, <<"top_rated", r.x>>, 0, r.n - 1), val |-> 0]}
    [] r.op = "top_rated_by_genre_and_year" ->
         {[keys |-> TopCommon(sets, zsets, r.x, r.y, r.n), val |-> 0]}
    [] r.op = "count_movies_by_actor" ->
         {[keys |-> <<>>, val |-> Cardinality(SMembers(sets, <<"actor", r.x>>))]}
    [] r.op = "count_high_rated_action_movies" ->
         {[keys |-> <<>>,
           val |-> Cardinality({t \in zsets : t[1] = <<"top_rated", "Action">>
                                              /\ t[3] >= r.n})]}
    [] r.op = "simple_query_profitable_movies" ->
         {[keys |-> ZRevRangeByScore(zsets, ZsetOf["budget"], PlusInf, r.n),
           val |-> 0]}
    [] OTHER ->
         {[keys |-> ks, val |-> 0] : ks \in Orders(SInter(sets, Buckets(r)))}

\* The store calls the index reads of a call take.
ReadCalls(r) ==
  CASE r.op = "complex_query_genre_country_language" -> 3
    [] r.op = "top_rated_by_genre_and_year" -> 2
    [] OTHER -> 1

\* ----------------------------------------------------- group-by aggregations
\* The genre list as redis_queries.py parses it (lines 269-274, 558-563):
\* literal_eval on any string, empty items dropped, the rest trimmed.
ParseGenresInQuery(raw) ==
  CASE raw.t \in {"native", "serialized"} ->
         StripAll(SelectSeq(raw.items, LAMBDA g : g.s # "" \/ g.pad))
    [] OTHER -> <<>>

\* The place of a genre name in the order of Python strings.
GenreRank(g) == CASE g = "" -> 0 [] g = "Action" -> 1 [] OTHER -> 2

RECURSIVE SortedTuple(_)
\* tuple(sorted(genres))
SortedTuple(s) ==
  IF s = <<>> THEN <<>>
  ELSE LET i == CHOOSE i \in DOMAIN s :
                  /\ \A j \in DOMAIN s : GenreRank(s[i]) <= GenreRank(s[j])
                  /\ \A j \in 1 .. i - 1 : GenreRank(s[i]) < GenreRank(s[j])
       IN <<s[i]>> \o SortedTuple(SubSeq(s, 1, i - 1) \o SubSeq(s, i + 1, Len(s)))

RECURSIVE Sum(_)
Sum(s) == IF s = <<>> THEN 0 ELSE Head(s) + Sum(Tail(s))

\* The positive values of a field over the records fetched (safe_float, then
\* "if v > 0: xs.append(v)").
Positive(movies, field) ==
  LET vs == [i \in 1 .. Len(movies) |-> SafeFloat(movies[i][field])]
  IN SelectSeq(vs, LAMBDA v : v > 0)

\* sum(xs) / len(xs) as twelfths, exact for up to four values.
Mean12(xs) == IF xs = <<>> THEN 0 ELSE (Sum(xs) * 12) \div Len(xs)

Highest(xs) == CHOOSE v \in Range(xs) : \A w \in Range(xs) : w <= v

Lowest(xs) == CHOOSE v \in Range(xs) : \A w \in Range(xs) : v <= w

\* int(year) of a bucket name written by the rebuild.
YearInt(y) == CHOOSE n \in 1900 .. 2100 : ToString(n) = y

\* One order of the members of a bucket (the aggregates do not depend on it).
SeqOf(S) == CHOOSE f \in Orders(S) : TRUE

\* A row of an aggregation's result.
Row(name, count, xs) ==
  [name |-> name, movie_count |-> count, rated |-> Len(xs),
   avg12 |-> Mean12(xs),
   max |-> IF xs = <<>> THEN 0 ELSE Highest(xs),
   min |-> IF xs = <<>> THEN 0 ELSE Lowest(xs)]

\* having count >= 3   (lines 449 and 577)
MinSupport == 3

\* aggregate_avg_rating_per_genre, lines 403-427, for one bucket key: the row
\* appended, if any, and whether the batch fetch raises.
GenreRow(st, s, key) ==
  LET batch == LoadMoviesBatch(st, SeqOf(SMembers(s, key)))
      ratings == Positive(batch.movies, "vote_average")
  IN [raises |-> batch.raises,
      rows |-> IF ratings # <<>>
                 THEN <<[k |-> Mean12(ratings),
                         v |-> Row(key[2], Len(ratings), ratings)]>>
                 ELSE <<>>]

\* aggregate_top_actors_by_movie_count, lines 443-465, for one bucket key.
ActorRow(st, s, key) ==
  LET members == SMembers(s, key)
      count == Cardinality(members)
      batch == LoadMoviesBatch(st, SeqOf(members))
      ratings == Positive(batch.movies, "vote_average")
  IN [raises |-> count >= MinSupport /\ batch.raises,
      rows |-> IF count >= MinSupport /\ ratings # <<>>
                 THEN <<[k |-> count * 1000 + Mean12(ratings),
                         v |-> Row(key[2], count, ratings)]>>
                 ELSE <<>>]

\* aggregate_yearly_trends, lines 482-532, for one bucket key.
YearRow(st, s, key) ==
  LET members == SMembers(s, key)
      batch == LoadMoviesBatch(st, SeqOf(members))
      ratings == Positive(batch.movies, "vote_average")
  IN [raises |-> YearInt(key[2]) >= 1990 /\ batch.raises,
      rows |-> IF YearInt(key[2]) >= 1990
                 THEN <<[k |-> YearInt(key[2]),
                         v |-> Row(key[2], Cardinality(members), ratings)]>>
                 ELSE <<>>]

\* aggregate_movies_per_year, lines 379-387, for one bucket key.
CountRow(st, s, key) ==
  [raises |-> FALSE,
   rows |-> <<[k |-> YearInt(key[2]),
               v |-> Row(key[2], Cardinality(SMembers(s, key)), <<>>)]>>]

RowOf(op, st, s, key) ==
  CASE op = "aggregate_avg_rating_per_genre" -> GenreRow(st, s, key)
    [] op = "aggregate_top_actors_by_movie_count" -> ActorRow(st, s, key)
    [] op = "aggregate_yearly_trends" -> YearRow(st, s, key)
    [] OTHER -> CountRow(st, s, key)

RECURSIVE Rows(_, _, _, _)
\* The loop over the bucket keys scan_iter handed out.
Rows(op, st, s, keys) ==
  IF keys = <<>> THEN [raises |-> FALSE, rows |-> <<>>]
  ELSE LET one == RowOf(op, st, s, Head(keys))
           rest == Rows(op, st, s, Tail(keys))
       IN [raises |-> one.raises \/ rest.raises,
           rows |-> one.rows \o rest.rows]

\* The genre tuples of lines 556-567 for the records fetched: one per record
\* with more than one genre.
Combos(movies) ==
  LET gs == [i \in 1 .. Len(movies) |->
               SortedTuple(ParseGenresInQuery(movies[i].genres_list))]
  IN SelectSeq([i \in 1 .. Len(movies) |-> [g |-> gs[i], m |-> movies[i]]],
               LAMBDA e : Len(e.g) > 1)

\* Lines 575-583: a row for each tuple counted at least three times, in the
\* order the tuples were first met.
ComboRows(movies) ==
  LET cs == Combos(movies)
      first == SelectSeq([i \in 1 .. Len(cs) |-> [i |-> i, g |-> cs[i].g]],
                         LAMBDA e : \A j \in 1 .. e.i - 1 : cs[j].g # e.g)
      of(g) == SelectSeq(cs, LAMBDA e : e.g = g)
      group(g) == [i \in 1 .. Len(of(g)) |-> of(g)[i].m]
      kept == SelectSeq(first, LAMBDA e : Len(of(e.g)) >= MinSupport)
  IN [i \in 1 .. Len(kept) |->
        [k |-> Len(of(kept[i].g)),
         v |-> Row(kept[i].g, Len(of(kept[i].g)),
                   Positive(group(kept[i].g), "vote_average"))]]

\* The namespace an aggregation scans.
ScanOf == [op \in {"aggregate_movies_per_year", "aggregate_avg_rating_per_genre",
                   "aggregate_top_actors_by_movie_count",
                   "aggregate_yearly_trends", "aggregate_genre_combinations"} |->
             CASE op = "aggregate_avg_rating_per_genre" -> "genre"
               [] op = "aggregate_top_actors_by_movie_count" -> "actor"
               [] op = "aggregate_genre_combinations" -> "movie"
               [] OTHER -> "year"]

\* top_n = 10 of aggregate_top_actors_by_movie_count
TopActors == 10

ScanRequests == {Req(op, "", "", "", TopActors) : op \in DOMAIN ScanOf}

\* scan_iter(pattern): the keys that match, in any order; over the records a
\* key may come twice (SCAN guarantees each key at least once).
ScanRead(r) ==
  IF ScanOf[r.op] = "movie"
    THEN LET once == Orders(DOMAIN store)
         IN {[keys |-> ks, val |-> 0] : ks \in once}
              \cup {[keys |-> Append(ks, ks[1]), val |-> 0] : ks \in once}
    ELSE {[keys |-> ks, val |-> 0] : ks \in Orders(IndexKeys(ScanOf[r.op]))}

Requests == IndexRequests \cup ScanRequests

Read(r) == IF r \in ScanRequests THEN ScanRead(r) ELSE IndexRead(r)

\* The values of a sorted sequence of [k, v].
Values(s) == [i \in 1 .. Len(s) |-> s[i].v]

\* Lines 309-323 of complex_query_genre_country_language.
RecentRated(movies) ==
  LET kept == SelectSeq(movies, LAMBDA m : /\ SafeInt(m.release_year) >= 2010
                                           /\ SafeFloat(m.vote_average) > 0)
  IN Values(SortDesc([i \in 1 .. Len(kept) |->
                        [k |-> SafeFloat(kept[i].vote_average),
                         v |-> IdStr(kept[i].id)]]))

\* revenue / budget, in fifteenths.
Roi(budget, revenue) == (revenue * 15) \div budget

\* Lines 135-153 of simple_query_profitable_movies: the fetched records kept
\* where budget > 0 and revenue > budget * multiplier, then sorted by roi.
Profitable(movies, m) ==
  LET kept == SelectSeq(movies, LAMBDA x :
                /\ SafeFloat(x.budget) > 0
                /\ SafeFloat(x.revenue) > SafeFloat(x.budget) * m)
      row(x) == [id |-> IdStr(x.id), budget |-> SafeFloat(x.budget),
                 revenue |-> SafeFloat(x.revenue),
                 roi |-> Roi(SafeFloat(x.budget), SafeFloat(x.revenue))]
  IN Values(SortDesc([i \in 1 .. Len(kept) |->
                        [k |-> row(kept[i]).roi, v |-> row(kept[i])]]))

\* The part of a call after its first reads: the store calls it makes (calls),
\* the record keys it fetches, whether parsing a payload raises, the result.
Fetch(r, rd) ==
  CASE r.op \in TitleOps ->
         [calls |-> Len(rd.keys),
          fetched |-> {rd.keys[i] : i \in {j \in DOMAIN rd.keys :
                         \A h \in 1 .. j - 1 : ~ LoadRaises(store, rd.keys[h])}},
          raises |-> \E i \in DOMAIN rd.keys : LoadRaises(store, rd.keys[i]),
          res |-> [i \in 1 .. Len(rd.keys) |-> LoadTitle(store, rd.keys[i])]]
    [] r.op \in CountOps ->
         [calls |-> 0, fetched |-> {}, raises |-> FALSE, res |-> <<rd.val>>]
    [] r.op = "complex_query_genre_country_language" ->
         LET batch == LoadMoviesBatch(store, rd.keys)
         IN [calls |-> batch.trips, fetched |-> Range(rd.keys),
             raises |-> batch.raises, res |-> RecentRated(batch.movies)]
    [] r.op = "simple_query_profitable_movies" ->
         LET batch == LoadMoviesBatch(store, rd.keys)
         IN [calls |-> batch.trips, fetched |-> Range(rd.keys),
             raises |-> batch.raises, res |-> Profitable(batch.movies, r.m)]
    [] r.op = "aggregate_genre_combinations" ->
         LET batch == LoadMoviesBatch(store, rd.keys)
         IN [calls |-> batch.trips, fetched |-> Range(rd.keys),
             raises |-> batch.raises,
             res |-> Values(SortDesc(ComboRows(batch.movies)))]
    [] OTHER ->
         LET rr == Rows(r.op, store, sets, rd.keys)
             sorted == Values(SortDesc(rr.rows))
         IN [calls |-> Len(rd.keys),
             fetched |-> IF r.op = "aggregate_movies_per_year" THEN {}
                         ELSE UNION {SMembers(sets, k) : k \in Range(rd.keys)},
             raises |-> rr.raises,
             res |-> IF r.op = "aggregate_top_actors_by_movie_count"
                        /\ Len(sorted) > r.n
                       THEN SubSeq(sorted, 1, r.n) ELSE sorted]

\* The first reads done with sinterstore into the first bucket's key: the
\* bucket is left holding the members common to the buckets of the call.
AfterStore(s, r) ==
  {t \in s : t[1] # Buckets(r)[1]}
    \cup {<<Buckets(r)[1], m>> : m \in SInter(s, Buckets(r))}

\* smembers, sinter, scard, zrevrange, zrangebyscore, scan_iter and get leave
\* the keyspace as it is.
AfterReads(s, r) == s

\* A client calls a query function, whose first reads succeed.
StartQuery(c) ==
  /\ pc \in {"idle", "done"}
  /\ q[c].st = "idle"
  /\ \E r \in Requests : \E rd \in Read(r) :
       /\ q' = [q EXCEPT ![c] = [st |-> "fetch", req |-> r, keys |-> rd.keys,
                                 val |-> rd.val, calls |-> ReadCalls(r),
                                 err |-> "", fetched |-> {}, res |-> <<>>]]
       /\ sets' = AfterReads(sets, r)
  /\ UNCHANGED <<store, LIMIT, zsets, pc, ci, cursor, page, returned,
                 processed, logged, report, before, inRow, visited, obs, qres>>

\* One of the first reads raises (store unreachable): the exception leaves
\* the function, no handler being around the call; n reads were made.
ReadFails(c) ==
  /\ pc \in {"idle", "done"}
  /\ q[c].st = "idle"
  /\ \E r \in Requests : \E n \in 1 .. ReadCalls(r) :
       q' = [q EXCEPT ![c] = [st |-> "error", req |-> r, keys |-> <<>>,
                              val |-> 0, calls |-> n, err |-> "transport",
                              fetched |-> {}, res |-> <<>>]]
  /\ UNCHANGED <<store, LIMIT, sets, zsets, pc, ci, cursor, page, returned,
                 processed, logged, report, before, inRow, visited, obs, qres>>

\* The rest of the function runs with every store call answered.
FinishQuery(c) ==
  /\ q[c].st = "fetch"
  /\ LET f == Fetch(q[c].req, q[c])
     IN q' = [q EXCEPT ![c] =
                IF f.raises
                  THEN [@ EXCEPT !.st = "error", !.err = "decode",
                                 !.calls = @ + f.calls, !.fetched = f.fetched]
                  ELSE [@ EXCEPT !.st = "ok", !.calls = @ + f.calls,
                                 !.fetched = f.fetched, !.res = f.res]]
  /\ UNCHANGED <<store, LIMIT, sets, zsets, pc, ci, cursor, page, returned,
                 processed, logged, report, before, inRow, visited, obs, qres>>

\* The failed call taken as one that found nothing (a handler that returns
\* None around the call): the function goes on to an empty result.
FetchFailsSwallowed(c) ==
  /\ q[c].st = "fetch"
  /\ Fetch(q[c].req, q[c]).calls > 0
  /\ q' = [q EXCEPT ![c] = [@ EXCEPT !.st = "ok", !.err = "transport",
                                     !.calls = @ + 1]]
  /\ UNCHANGED <<store, LIMIT, sets, zsets, pc, ci, cursor, page, returned,
                 processed, logged, report, before, inRow, visited, obs, qres>>

\* A get, a pipeline.execute() or a bucket read of the rest of the function
\* raises: the exception leaves the function.
FetchFails(c) ==
  /\ q[c].st = "fetch"
  /\ Fetch(q[c].req, q[c]).calls > 0
  /\ q' = [q EXCEPT ![c] = [@ EXCEPT !.st = "error", !.err = "transport",
                                     !.calls = @ + 1]]
  /\ UNCHANGED <<store, LIMIT, sets, zsets, pc, ci, cursor, page, returned,
                 processed, logged, report, before, inRow, visited, obs, qres>>

\* The function has returned or raised; the client may call again.
Return(c) ==
  /\ q[c].st \in {"ok", "error"}
  /\ q' = [q EXCEPT ![c] = NoQuery]
  /\ UNCHANGED <<store, LIMIT, sets, zsets, pc, ci, cursor, page, returned,
                 processed, logged, report, before, inRow, visited, obs, qres>>

Query(c) ==
  \/ StartQuery(c)
  \/ ReadFails(c)
  \/ FinishQuery(c)
  \/ FetchFails(c)
  \/ Return(c)

\* One client querying a published snapshot.
Queries == QInitWith(QPayloads) /\ [][Query("a")]_vars

\* The stores the clients of Concurrent query: the first two records.
CStores ==
  {[k \in {StoreKey(1), StoreKey(2)} |-> st[k]] :
     st \in QStores({Json(Clean), Json(Swapped), Json(Unrated), Corrupt})}

\* Several clients querying a published snapshot at once, their store calls
\* interleaved in any order, with no rebuild running.
Concurrent == QInitOn(CStores) /\ [][\E c \in Clients : Query(c)]_vars

\* ------------------------------------------------------------ the claims
\* Visited keys whose record went through lines 129-183.
Indexed == {k \in visited : store[k].t = "json" /\ ~ ExtractRaises(store[k].movie)}

\* The index keys a record's attribute values put it in.
SetsOf(movie) == {t[1] : t \in SAdds(movie)}

\* The <<ordered index key, score>> pairs a record's values put it in.
ZsetsOf(movie) == {<<t[1], t[3]>> : t \in ZAdds(movie)}

\* The members of an ordered set.
ZMembers(zs, key) == {t[2] : t \in {x \in zs : x[1] = key}}

\* C1: a query interleaved with the rebuild never observes a partial index:
\* what it reads under an index key is that key's contents before the rebuild
\* started or its contents after the rebuild finished.
C1_ReadIsOldOrNew ==
  (pc = "done" /\ obs.has) =>
    \/ obs.val = SMembers(before.sets, obs.key)
    \/ obs.val = SMembers(sets, obs.key)

\* C2: when a Record Store call (scan page or record get) fails during the
\* scan, every managed index key has the contents it had before the rebuild.
C2_FailureLeavesIndexes ==
  pc = "failed" => (sets = before.sets /\ zsets = before.zsets)

\* C3: after a completed rebuild every record key of the store is a member of
\* exactly the inverted and ordered indexes its extracted attribute values
\* imply, and no index holds anything else.
C3_IndexIsExactlyImplied ==
  pc = "done" =>
    /\ sets = UNION {{<<b, k>> : b \in SetsOf(store[k].movie)} :
                       k \in {x \in StoreKeys :
                                /\ store[x].t = "json"
                                /\ ~ ExtractRaises(store[x].movie)}}
    /\ zsets = UNION {{<<z[1], k, z[2]>> : z \in ZsetsOf(store[k].movie)} :
                        k \in {x \in StoreKeys :
                                 /\ store[x].t = "json"
                                 /\ ~ ExtractRaises(store[x].movie)}}

\* C4: after a rebuild, every processed record's key is in genre:g for each of
\* its genres g; it is in top_rated:g with its rating V as score when V > 0,
\* and not a member of top_rated:g when V <= 0.
C4_GenreAndTopRated ==
  pc = "done" =>
    \A k \in Indexed :
      LET m == store[k].movie
          V == CoerceValue(m.vote_average)
      IN \A g \in Range(ParseGenres(m.genres_list)) \ {""} :
           /\ k \in SMembers(sets, <<"genre", g>>)
           /\ V > 0 => <<<<"top_rated", g>>, k, V>> \in zsets
           /\ V <= 0 => k \notin ZMembers(zsets, <<"top_rated", g>>)

\* The rule of C4 for the member the rebuild writes for the record.
GenreAndTopRatedOfMember ==
  pc = "done" =>
    \A k \in Indexed :
      LET m == store[k].movie
          V == CoerceValue(m.vote_average)
      IN \A g \in Range(ParseGenres(m.genres_list)) \ {""} :
           /\ MovieKey(m) \in SMembers(sets, <<"genre", g>>)
           /\ V > 0 => <<<<"top_rated", g>>, MovieKey(m), V>> \in zsets
           /\ V <= 0 => MovieKey(m) \notin ZMembers(zsets, <<"top_rated", g>>)

\* Records of the store that go through lines 129-183 when visited.
Processable ==
  {k \in StoreKeys : store[k].t = "json" /\ ~ ExtractRaises(store[k].movie)}

\* C5 as claimed: a rebuild run right after a completed rebuild of the same
\* store leaves every index key with the contents the first run left, for any
\* store size and any order in which the scan returns the keys.
C5_Idempotent ==
  (pc = "done" /\ inRow # "no") => (sets = before.sets /\ zsets = before.zsets)

\* The scan of this rebuild ran to its end and the loop reached every key of
\* every page: the cap N did not cut the run short.
WholeScan == cursor = 0 /\ page = {}

\* C5 as amended: the same, when both runs get through the whole scan; a run
\* that stops at the cap N has indexed only the records it reached by then.
C5_IdempotentWholeScan ==
  (pc = "done" /\ inRow = "full" /\ WholeScan) =>
    (sets = before.sets /\ zsets = before.zsets)

\* A second run in a row has completed, both through the whole scan, over a
\* store of at least two processable records.
C5_Witness ==
  /\ pc = "done"
  /\ inRow = "full"
  /\ WholeScan
  /\ Cardinality(Processable) >= 2
  /\ sets = before.sets
  /\ sets # {}

\* At most N processable records in the store are not enough for that: the
\* counter of line 183 counts visits, and the scan may return a key twice.
IdempotentUnderCap ==
  (pc = "done" /\ inRow # "no" /\ Cardinality(Processable) <= LIMIT) =>
    (sets = before.sets /\ zsets = before.zsets)

\* What the rebuild has written is what its indexed records call for, and the
\* counter counts them: a record whose processing fails leaves no trace.
BadRecordLeavesNoTrace ==
  pc = "done" =>
    /\ sets = UNION {SAdds(store[k].movie) : k \in Indexed}
    /\ zsets = UNION {ZAdds(store[k].movie) : k \in Indexed}
    /\ processed >= Cardinality(Indexed)

\* C6: a record whose processing fails does not abort the rebuild, the other
\* records are indexed as if it were absent, and the rebuild's report counts
\* it as skipped.
C6_BadRecordSkippedAndCounted ==
  (pc = "done" /\ logged # {}) =>
    /\ sets = UNION {SAdds(store[k].movie) : k \in Indexed}
    /\ zsets = UNION {ZAdds(store[k].movie) : k \in Indexed}
    /\ processed >= Cardinality(Indexed)
    /\ "skipped" \in DOMAIN report
    /\ report["skipped"] = Cardinality(logged)

\* The numeric fields of a record that are missing, empty or no number.
Malformed(movie) ==
  {f \in Range(NumFields) : movie[f].t \in {"absent", "empty", "badstr"}}

\* C7: a visited record with a numeric field that is missing, empty or a
\* non-numeric string is still added to every categorical index its other
\* fields imply and to the ordered index of each of its positive numeric
\* fields, and is left out of the ordered index of the malformed field.
C7_MalformedNumberCoerced ==
  pc = "done" =>
    \A k \in {x \in visited : store[x].t = "json"} :
      LET m == store[k].movie
      IN Malformed(m) # {} =>
           /\ SAdds(m) \subseteq sets
           /\ ZAdds(m) \subseteq zsets
           /\ \A f \in Malformed(m) : MovieKey(m) \notin ZMembers(zsets, ZsetOf[f])

\* The year buckets that hold member mk.
YearsOf(mk) == {t[1][2] : t \in {x \in sets : x[1][1] = "year" /\ x[2] = mk}}

\* C8: a visited record is in the year bucket of its integer year, of its
\* truncated float year or of the value of its digit-only year string (blanks
\* around the digits aside); with any other raw year it is in no year bucket
\* and still in every other categorical bucket its fields imply.
C8_YearExtraction ==
  pc = "done" =>
    \A k \in {x \in visited : store[x].t = "json"} :
      LET m == store[k].movie
          y == m.release_year
      IN CASE y.t = "int" -> YearsOf(MovieKey(m)) = {ToString(y.v)}
           [] y.t = "float" -> YearsOf(MovieKey(m)) = {ToString(y.v \div 10)}
           [] y.t \in {"digits", "padded"} ->
                YearsOf(MovieKey(m)) = {ToString(y.v)}
           [] OTHER ->
                /\ YearsOf(MovieKey(m)) = {}
                /\ {t \in SAdds(m) : t[1][1] # "year"} \subseteq sets

\* The values v whose bucket ns:v holds member mk.
BucketsOf(ns, mk) == {t[1][2] : t \in {x \in sets : x[1][1] = ns /\ x[2] = mk}}

\* The trimmed, non-empty values of a raw list.
Trimmed(raw) == {raw.items[i].s : i \in 1 .. Len(raw.items)} \ {""}

\* C9: for the genre list and the production countries alike, a native
\* sequence, a serialized list and a comma-separated string of the same values
\* yield the same trimmed values; a serialized list that does not parse
\* yields none.
C9_ListShapesAgree ==
  pc = "done" =>
    \A k \in Indexed :
      LET m == store[k].movie
          ok(ns, raw) ==
            /\ raw.t \in {"native", "serialized", "plain"} =>
                 BucketsOf(ns, MovieKey(m)) = Trimmed(raw)
            /\ raw.t = "broken" => BucketsOf(ns, MovieKey(m)) = {}
      IN /\ ok("genre", m.genres_list)
         /\ ok("country", m.production_countries)

\* The coerced value of field f of the record stored under key k.
FieldValue(k, f) == CoerceValue(store[k].movie[f])

\* C10: after a rebuild a range query on zset:<field> with bounds [lo, +inf]
\* returns exactly the keys of the records whose coerced field value v has
\* lo <= v and v > 0, highest value first.
C10_RangeQueryExact ==
  (pc = "done" /\ qres.op = "zrevrangebyscore") =>
    /\ Range(qres.res) =
         {k \in StoreKeys : /\ store[k].t = "json"
                            /\ FieldValue(k, qres.field) >= qres.lo
                            /\ FieldValue(k, qres.field) > 0}
    /\ \A i, j \in 1 .. Len(qres.res) :
         /\ i < j => FieldValue(qres.res[i], qres.field)
                       >= FieldValue(qres.res[j], qres.field)
         /\ i # j => qres.res[i] # qres.res[j]

\* ------------------------------------------------- the claims on the queries
\* A rebuild that gets through the whole scan leaves the snapshot the queries
\* are followed over.
SnapshotIsRebuilt ==
  (pc = "done" /\ WholeScan /\ DOMAIN store = StoreKeys)
    => (sets = SnapshotSets(store) /\ zsets = SnapshotZsets(store))

Reverse(s) == [i \in 1 .. Len(s) |-> s[Len(s) + 1 - i]]

\* Every member of some set of the index.
Members == {t[2] : t \in sets}

InterOps == {"query_by_actor_and_genre", "query_by_genre_and_year",
             "complex_query_genre_country_language"}

\* The members of every bucket the call names.
InAll(r) ==
  {m \in Members : \A i \in DOMAIN Buckets(r) : <<Buckets(r)[i], m>> \in sets}

\* C11: an intersection query sets out to fetch exactly the keys that are
\* members of every bucket it names, each once; combining the buckets in the
\* other order gives the same set; and a call that completes has fetched
\* exactly those keys.
C11_IntersectionFetch ==
  \A c \in Clients :
    (q[c].st \in {"fetch", "ok"} /\ q[c].req.op \in InterOps) =>
      /\ Range(q[c].keys) = InAll(q[c].req)
      /\ Len(q[c].keys) = Cardinality(InAll(q[c].req))
      /\ SInter(sets, Reverse(Buckets(q[c].req))) = InAll(q[c].req)
      /\ q[c].st = "ok" => q[c].fetched = InAll(q[c].req)

\* An intersection query has completed with a non-empty result that is a
\* proper part of one of its buckets.
C11_Witness ==
  \E c \in Clients :
    /\ q[c].st = "ok"
    /\ q[c].req.op \in InterOps
    /\ q[c].fetched # {}
    /\ \E i \in DOMAIN Buckets(q[c].req) :
         SMembers(sets, Buckets(q[c].req)[i]) # q[c].fetched

\* The members and scores of an ordered set.
Ranking(key) == {t \in zsets : t[1] = key}

\* ks lists k members of S, a set of <<key, member, score>>, highest score
\* first, and no member of S left out has a higher score than one listed.
IsTopIn(ks, S, k) ==
  LET score(m) == (CHOOSE t \in S : t[2] = m)[3]
  IN /\ Len(ks) = k
     /\ \A i, j \in DOMAIN ks : i # j => ks[i] # ks[j]
     /\ \A i \in DOMAIN ks : \E t \in S : t[2] = ks[i]
     /\ \A i, j \in DOMAIN ks : i < j => score(ks[i]) >= score(ks[j])
     /\ \A t \in S :
          (\A i \in DOMAIN ks : ks[i] # t[2]) =>
            \A i \in DOMAIN ks : score(ks[i]) >= t[3]

IsTop(ks, key, k) == IsTopIn(ks, Ranking(key), k)

Least(a, b) == IF a < b THEN a ELSE b

\* C12: top_rated_by_genre(g, K) yields exactly min(K, |top_rated:g|) keys,
\* the highest-scored members of top_rated:g in descending score order, for
\* every K >= 0.
C12_TopRatedByGenre ==
  \A c \in Clients :
    (q[c].st \in {"fetch", "ok"} /\ q[c].req.op = "top_rated_by_genre") =>
      IsTop(q[c].keys, <<"top_rated", q[c].req.x>>,
            Least(q[c].req.n, Cardinality(Ranking(<<"top_rated", q[c].req.x>>))))

\* The same for K >= 1 only.
TopRatedByGenreFromOne ==
  \A c \in Clients :
    (q[c].st \in {"fetch", "ok"} /\ q[c].req.op = "top_rated_by_genre"
       /\ q[c].req.n >= 1) =>
      IsTop(q[c].keys, <<"top_rated", q[c].req.x>>,
            Least(q[c].req.n, Cardinality(Ranking(<<"top_rated", q[c].req.x>>))))

\* The members of top_rated:g that are in year:y, with their scores.
InYear(g, y) ==
  {t \in Ranking(<<"top_rated", g>>) : t[2] \in SMembers(sets, <<"year", y>>)}

\* C13: top_rated_by_genre_and_year(g, y, K) yields the min(K, m) highest-
\* scored members of top_rated:g that are in year:y (m of them), in
\* descending score order, whatever higher-ranked members are not in year:y.
C13_TopRatedByGenreAndYear ==
  \A c \in Clients :
    (q[c].st \in {"fetch", "ok"}
       /\ q[c].req.op = "top_rated_by_genre_and_year") =>
      IsTopIn(q[c].keys, InYear(q[c].req.x, q[c].req.y),
              Least(q[c].req.n, Cardinality(InYear(q[c].req.x, q[c].req.y))))

\* The call has completed with K below the number of members in the year,
\* and a member outside the year ranks above the one it yields first.
C13_Witness ==
  \E c \in Clients :
    /\ q[c].st = "ok"
    /\ q[c].req.op = "top_rated_by_genre_and_year"
    /\ q[c].req.n >= 1
    /\ q[c].req.n < Cardinality(InYear(q[c].req.x, q[c].req.y))
    /\ \E t \in Ranking(<<"top_rated", q[c].req.x>>) :
         /\ t \notin InYear(q[c].req.x, q[c].req.y)
         /\ t[3] > ZScore(zsets, <<"top_rated", q[c].req.x>>, q[c].keys[1])

\* C15: a query one of whose store calls failed ends in an error outcome with
\* no result, and makes no further store call: from then on the function only
\* hands the exception to its caller.
C15_TransportErrorSurfaces ==
  /\ [](\A c \in Clients :
          (q[c].st # "idle" /\ q[c].err = "transport") =>
            (q[c].st = "error" /\ q[c].res = <<>>))
  /\ [][\A c \in Clients :
          (q[c].st = "error") => (q'[c].st = "idle" \/ q'[c] = q[c])]_vars

\* A record fetch failed after the index read had returned keys.
C15_Witness ==
  \E c \in Clients :
    /\ q[c].st = "error"
    /\ q[c].err = "transport"
    /\ q[c].keys # <<>>
    /\ q[c].calls >= 2

\* The functions that hand the keys of their first read to load_movies_batch.
BatchOps == {"complex_query_genre_country_language",
             "aggregate_genre_combinations"}

\* The places in keys of the keys that are in the store with a payload that
\* is a JSON text.
Parseable(keys) ==
  {i \in DOMAIN keys : keys[i] \in DOMAIN store /\ store[keys[i]].t = "json"}

\* What C16 says of load_movies_batch(keys) for a call that got its answers
\* from the store: it completes; one round trip, none for no keys; one record
\* per key that is present and parseable, in the order of the keys; nothing
\* for the other keys.
BatchAsClaimed(c) ==
  LET keys == q[c].keys
      b == LoadMoviesBatch(store, keys)
      nth(j) == CHOOSE i \in Parseable(keys) :
                  Cardinality({h \in Parseable(keys) : h < i}) = j - 1
  IN /\ q[c].st = "ok"
     /\ b.trips = (IF keys = <<>> THEN 0 ELSE 1)
     /\ Len(b.movies) = Cardinality(Parseable(keys))
     /\ Len(b.movies) <= Len(keys)
     /\ \A j \in DOMAIN b.movies : b.movies[j] = store[keys[nth(j)]].movie

\* C16: load_movies_batch(keys) returns, in one pipelined round trip, exactly
\* one parsed record for each input key present with a parseable payload and
\* nothing for keys that are absent or unparseable; for no keys it returns an
\* empty list and makes no store call.
C16_LoadMoviesBatch ==
  \A c \in Clients :
    (q[c].st \in {"ok", "error"} /\ q[c].req.op \in BatchOps
       /\ q[c].err # "transport") => BatchAsClaimed(c)

\* The same where every payload of the store decodes as text.
LoadMoviesBatchOnText ==
  \A c \in Clients :
    (q[c].st \in {"ok", "error"} /\ q[c].req.op \in BatchOps
       /\ q[c].err # "transport"
       /\ \A k \in DOMAIN store : store[k].t # "undecodable") => BatchAsClaimed(c)

\* The sorted genre tuple of the record under key k.
GenreTuple(k) == SortedTuple(ParseGenresInQuery(store[k].movie.genres_list))

\* The keys of the records that have a genre list of at least n genres.
Grouped(n) ==
  {k \in DOMAIN store : store[k].t = "json" /\ Len(GenreTuple(k)) >= n}

\* The groups of the records of Grouped(n) by genre tuple, with their counts,
\* that have at least MinSupport records.
Groups(n) ==
  LET count(k) == Cardinality({j \in Grouped(n) : GenreTuple(j) = GenreTuple(k)})
  IN {[genres |-> GenreTuple(k), count |-> count(k)] :
        k \in {j \in Grouped(n) : count(j) >= MinSupport}}

\* The rows of a result as groups, and no group reported twice.
Reports(res, groups) ==
  /\ {[genres |-> res[i].name, count |-> res[i].movie_count] : i \in DOMAIN res}
       = groups
  /\ Len(res) = Cardinality(groups)

\* C17: aggregate_genre_combinations groups the records by the sorted tuple
\* of their genre list, counts the records of each group, and returns exactly
\* the groups whose count reaches the minimum support.
C17_GenreCombinations ==
  \A c \in Clients :
    (q[c].st = "ok" /\ q[c].req.op = "aggregate_genre_combinations") =>
      Reports(q[c].res, Groups(1))

\* The same for the records of more than one genre, where scan_iter handed
\* out every key once.
CombinationsOfSeveralGenres ==
  \A c \in Clients :
    (q[c].st = "ok" /\ q[c].req.op = "aggregate_genre_combinations"
       /\ Len(q[c].keys) = Cardinality(DOMAIN store)) =>
      Reports(q[c].res, Groups(2))

\* The group-by aggregations over a namespace that fetch the members.
GroupByOps == {"aggregate_avg_rating_per_genre",
               "aggregate_top_actors_by_movie_count", "aggregate_yearly_trends"}

\* The members of a bucket whose stored record has a positive rating.
Rated(key) ==
  {m \in SMembers(sets, key) :
     Parses(store, m) /\ SafeFloat(store[m].movie.vote_average) > 0}

Rating(m) == SafeFloat(store[m].movie.vote_average)

RECURSIVE SumOver(_)
SumOver(S) ==
  IF S = {} THEN 0
  ELSE LET m == CHOOSE x \in S : TRUE IN Rating(m) + SumOver(S \ {m})

\* The rating figures of a row are those of the rated members of its bucket.
FiguresOfRated(row, key) ==
  /\ row.rated = Cardinality(Rated(key))
  /\ Rated(key) # {} =>
       /\ row.avg12 * row.rated = SumOver(Rated(key)) * 12
       /\ \E m \in Rated(key) : row.max = Rating(m)
       /\ \A m \in Rated(key) : Rating(m) <= row.max
       /\ \E m \in Rated(key) : row.min = Rating(m)
       /\ \A m \in Rated(key) : row.min <= Rating(m)

\* Every row of a result reports its bucket's cardinality as movie_count and
\* the figures of the rated members.
CountsMembership(c) ==
  \A i \in DOMAIN q[c].res :
    LET row == q[c].res[i]
        key == <<ScanOf[q[c].req.op], row.name>>
    IN /\ row.movie_count = Cardinality(SMembers(sets, key))
       /\ FiguresOfRated(row, key)

\* C18: in every group-by aggregation over an index namespace the movie_count
\* of a bucket is its cardinality, members without a positive rating
\* included, and mean, min and max are over the members with a positive value.
C18_GroupByCounts ==
  \A c \in Clients :
    (q[c].st = "ok" /\ q[c].req.op \in GroupByOps) => CountsMembership(c)

\* The same for the two aggregations other than aggregate_avg_rating_per_genre.
ActorAndYearCounts ==
  \A c \in Clients :
    (q[c].st = "ok" /\ q[c].req.op \in GroupByOps
       /\ q[c].req.op # "aggregate_avg_rating_per_genre") => CountsMembership(c)

\* The outcome of client c's call is one the call has on the published
\* snapshot with no other call in flight: its first reads are reads of the
\* snapshot, and its result, or its decoding error, is that of the rest of
\* the function on what was read.
AsAlone(c) ==
  /\ q[c].st \in {"fetch", "ok"} \/ (q[c].st = "error" /\ q[c].err = "decode") =>
       \E rd \in Read(q[c].req) : rd.keys = q[c].keys /\ rd.val = q[c].val
  /\ q[c].st = "ok" =>
       /\ ~ Fetch(q[c].req, q[c]).raises
       /\ q[c].res = Fetch(q[c].req, q[c]).res
  /\ q[c].st = "error" /\ q[c].err = "decode" => Fetch(q[c].req, q[c]).raises

\* C19: the query functions only read: no step of a query changes a primary
\* record, a bucket or a ranking, and under every interleaving of the calls
\* of several clients, with no rebuild running, each call has the outcome it
\* has alone on the snapshot.
C19_QueriesOnlyRead ==
  /\ [](/\ sets = before.sets /\ zsets = before.zsets
        /\ \A c \in Clients : AsAlone(c))
  /\ [][UNCHANGED <<store, sets, zsets>>]_vars

\* One client has returned a result while the other is between its index
\* read and its fetch.
C19_Witness ==
  /\ q["a"].st = "fetch" /\ q["a"].keys # <<>>
  /\ q["b"].st = "ok" /\ q["b"].res # <<>>
  /\ q["a"].req.op = "query_by_actor_and_genre"
  /\ q["b"].req.op = "query_by_genre"

\* The keys of the buckets and of the ordered sets.
IndexKeyspace == {t[1] : t \in sets} \cup {t[1] : t \in zsets}

\* C20: aggregate_data never writes, overwrites or deletes a primary record:
\* no step of a rebuild, the prefix cleanup included, changes the set of
\* movie:* keys or a payload, whatever the attribute values of the records,
\* and no key it writes is in the namespace of the primary records.
C20_PrimaryRecordsKept ==
  /\ [](\A key \in IndexKeyspace : key[1] # RecordPrefix)
  /\ [][store' = store]_vars

\* A rebuild has cleaned up the indexes an earlier one left and has written
\* the indexes of the records again.
C20_Witness ==
  /\ pc = "done"
  /\ before.sets # {} /\ before.zsets # {}
  /\ report.processed > 0
  /\ sets # {} /\ zsets # {}

\* The records of the stores on which termination is followed: one that is
\* indexed, one whose processing raises, and a key with no data (line 47).
TPayloads == {Json(Clean), Corrupt, Empty}

\* A rebuild whose every enabled step is eventually taken: the script runs on
\* and the store answers or raises.
Terminating == InitWith(TPayloads) /\ [][Rebuild]_vars /\ WF_vars(Rebuild)

\* aggregate_data has returned or an exception has left it.
Ended == pc \in {"done", "failed"}

\* At the end of a run the cap is reached or the run has been through every
\* key of the store.
CapOrAllVisited ==
  pc = "done" => (processed = LIMIT \/ visited = DOMAIN store)

\* C21: aggregate_data terminates on a finite store; throughout the scan
\* processed never exceeds the cap N, and when it has returned either exactly
\* N records have been processed or every key of the store has been visited.
C21_TerminatesWithinCap ==
  /\ [](processed <= LIMIT /\ CapOrAllVisited)
  /\ (pc = "cleanup") ~> Ended

\* A run that stopped at the cap before the last key, and one that went
\* through a store in which not every record could be processed.
C21_Witness ==
  /\ pc = "done"
  /\ \/ processed = LIMIT /\ visited # DOMAIN store
     \/ processed < LIMIT /\ visited = DOMAIN store /\ processed > 0

\* The keys of the records of the store with a positive budget of at least
\* min_budget and a revenue above m times the budget.
ProfitableRecords(min_budget, m) ==
  {k \in DOMAIN store :
     /\ store[k].t = "json"
     /\ SafeFloat(store[k].movie.budget) >= min_budget
     /\ SafeFloat(store[k].movie.budget) > 0
     /\ SafeFloat(store[k].movie.revenue) > m * SafeFloat(store[k].movie.budget)}

\* res lists the records under the keys of S once each, highest roi first.
ListsByRoi(res, S) ==
  /\ Len(res) = Cardinality(S)
  /\ {res[i].id : i \in DOMAIN res} = {IdStr(store[k].movie.id) : k \in S}
  /\ \A i \in DOMAIN res :
       res[i].roi * res[i].budget = res[i].revenue * 15
  /\ \A i, j \in DOMAIN res : i < j => res[i].roi >= res[j].roi

\* C22: on a store unchanged since the last rebuild,
\* simple_query_profitable_movies(min_budget, m) returns exactly the records
\* whose budget b has b >= min_budget, b > 0 and revenue > m * b, sorted by
\* revenue / budget, highest first.
C22_ProfitableMovies ==
  \A c \in Clients :
    (q[c].st = "ok" /\ q[c].req.op = "simple_query_profitable_movies") =>
      ListsByRoi(q[c].res, ProfitableRecords(q[c].req.n, q[c].req.m))

\* The same on a store each of whose records has an integer id, so that the
\* member the rebuild wrote for it is its key.
ProfitableAmongIntegerIds ==
  \A c \in Clients :
    (/\ q[c].st = "ok" /\ q[c].req.op = "simple_query_profitable_movies"
     /\ \A k \in DOMAIN store :
          store[k].t = "json" => MovieKey(store[k].movie) = k) =>
      ListsByRoi(q[c].res, ProfitableRecords(q[c].req.n, q[c].req.m))

\* The entries of the buckets and of the ordered sets, as <<key, member>>.
IndexEntries == {<<t[1], t[2]>> : t \in sets} \cup {<<t[1], t[2]>> : t \in zsets}

\* The member m of index key resolves, by get, to a record whose attributes
\* put it under key.
Resolves(key, m) ==
  /\ m \in DOMAIN store
  /\ store[m].t = "json"
  /\ \/ \E t \in SAdds(store[m].movie) : t[1] = key
     \/ \E t \in ZAdds(store[m].movie) : t[1] = key

\* C23: every member aggregate_data adds to an index for a scanned record is
\* the key the record is stored under, so that after a rebuild every member
\* of every bucket and ordered set resolves, by get, to the record whose
\* attributes put it there.
C23_MembersResolve ==
  pc = "done" => \A e \in IndexEntries : Resolves(e[1], e[2])

\* The same on a store each of whose records has an integer id.
MembersResolveForIntegerIds ==
  (/\ pc = "done"
   /\ \A k \in DOMAIN store :
        store[k].t = "json" => MovieKey(store[k].movie) = k) =>
    \A e \in IndexEntries : Resolves(e[1], e[2])

====
